---- MODULE Spec2Model ----
(***************************************************************************)
(* Model of llm_diagram_processor.py: CodeBlockDetector, SyntaxValidator   *)
(* and LLMOutputProcessor.process.                                         *)
(*                                                                         *)
(* A Python str is a sequence of one-character strings, so that slicing,   *)
(* searching, splitting and lower-casing are computed character by         *)
(* character as the interpreter does.  Positions in the model's helper     *)
(* operators are 1-based sequence indices; the start_pos / end_pos fields  *)
(* of a block are the 0-based half-open offsets the code stores.           *)
(***************************************************************************)
EXTENDS Integers, Sequences, FiniteSets, TLC

VARIABLES
    pc,            \* position of the operation under way
    text,          \* input_text of detect_blocks / process
    pool,          \* the candidate list handed to _deduplicate_blocks
    blocks,        \* the list detect_blocks returns
    code,          \* code argument of _infer_language / validate_and_fix
    language,      \* language argument of validate_and_fix
    inferred,      \* result of _infer_language(code)
    fixed_code,    \* first component of validate_and_fix's result
    issues,        \* second component of validate_and_fix's result
    idx,           \* loop index of process (0-based, as enumerate gives it)
    stats,         \* the stats dict of process
    processed_blocks, \* the processed_blocks list of process
    calls,         \* the collaborator calls process has made, in order
    files,         \* the files of the renderer's temp_dir: name -> content
    document       \* the document process writes to output_path

vars == <<pc, text, pool, blocks, code, language, inferred, fixed_code, issues,
          idx, stats, processed_blocks, calls, files, document>>

-----------------------------------------------------------------------------
(* Characters and Python str primitives                                    *)

LowerLetters == <<"a","b","c","d","e","f","g","h","i","j","k","l","m",
                  "n","o","p","q","r","s","t","u","v","w","x","y","z">>
UpperLetters == <<"A","B","C","D","E","F","G","H","I","J","K","L","M",
                  "N","O","P","Q","R","S","T","U","V","W","X","Y","Z">>
Digits == {"0","1","2","3","4","5","6","7","8","9"}

LowerSet == {LowerLetters[i] : i \in DOMAIN LowerLetters}
UpperSet == {UpperLetters[i] : i \in DOMAIN UpperLetters}

\* str.lower() on one character
ToLowerMap == [c \in UpperSet |->
                 LowerLetters[CHOOSE i \in DOMAIN UpperLetters : UpperLetters[i] = c]]
LowerChar(c) == IF c \in UpperSet THEN ToLowerMap[c] ELSE c

\* str.lower()
Lower(s) == [i \in 1..Len(s) |-> LowerChar(s[i])]

\* the regular-expression class \w
IsWord(c) == c \in LowerSet \cup UpperSet \cup Digits \cup {"_"}

\* the regular-expression class \s, and the characters str.strip() removes
IsSpace(c) == c \in {" ", "\n", "\t", "\r"}

\* s[a:b] for 1-based a and inclusive b (empty when b < a)
Slice(s, a, b) == IF b < a THEN <<>> ELSE SubSeq(s, a, b)

\* does the literal kw stand at 1-based position i of s
MatchAt(s, kw, i) ==
    /\ i >= 1
    /\ i + Len(kw) - 1 <= Len(s)
    /\ \A j \in 1..Len(kw) : s[i + j - 1] = kw[j]

\* kw in s
Contains(s, kw) == \E i \in 1..(Len(s) - Len(kw) + 1) : MatchAt(s, kw, i)

\* s.startswith(kw), s.endswith(kw)
StartsWith(s, kw) == MatchAt(s, kw, 1)
EndsWith(s, kw) == Len(kw) <= Len(s) /\ MatchAt(s, kw, Len(s) - Len(kw) + 1)

\* s.find(kw, from): least 1-based position >= from where kw stands, 0 if none
Find(s, kw, from) ==
    LET hits == {i \in from..(Len(s) - Len(kw) + 1) : MatchAt(s, kw, i)}
    IN  IF hits = {} THEN 0 ELSE CHOOSE i \in hits : \A j \in hits : i <= j

\* s.strip()
Strip(s) ==
    LET keep == {i \in 1..Len(s) : ~IsSpace(s[i])}
    IN  IF keep = {} THEN <<>>
        ELSE LET lo == CHOOSE i \in keep : \A j \in keep : i <= j
                 hi == CHOOSE i \in keep : \A j \in keep : i >= j
             IN  SubSeq(s, lo, hi)

\* s.split('\n')
RECURSIVE SplitFrom(_, _)
SplitFrom(s, from) ==
    LET nl == Find(s, <<"\n">>, from)
    IN  IF nl = 0 THEN <<Slice(s, from, Len(s))>>
        ELSE <<Slice(s, from, nl - 1)>> \o SplitFrom(s, nl + 1)
SplitLines(s) == SplitFrom(s, 1)

\* '\n'.join(lines)
RECURSIVE JoinLines(_)
JoinLines(lines) ==
    IF Len(lines) = 0 THEN <<>>
    ELSE IF Len(lines) = 1 THEN lines[1]
    ELSE lines[1] \o <<"\n">> \o JoinLines(Tail(lines))

\* s.count(c) for a one-character c drawn from the set cs
CountIn(s, cs) == Cardinality({i \in 1..Len(s) : s[i] \in cs})

\* c * n
Repeat(c, n) == [i \in 1..n |-> c]

\* any(keyword in s for keyword in kws)
AnyIn(s, kws) == \E k \in 1..Len(kws) : Contains(s, kws[k])

-----------------------------------------------------------------------------
(* Language tags and keyword lists, spelled as the source spells them      *)

MERMAID  == <<"m","e","r","m","a","i","d">>
PLANTUML == <<"p","l","a","n","t","u","m","l">>
DOT      == <<"d","o","t">>
UNKNOWN  == <<"u","n","k","n","o","w","n">>

kwGraph           == <<"g","r","a","p","h">>
kwSequenceDiagram == <<"s","e","q","u","e","n","c","e","d","i","a","g","r","a","m">>
kwClassDiagram    == <<"c","l","a","s","s","D","i","a","g","r","a","m">>
kwStateDiagram    == <<"s","t","a","t","e","d","i","a","g","r","a","m">>
kwErDiagram       == <<"e","r","d","i","a","g","r","a","m">>
kwGantt           == <<"g","a","n","t","t">>
kwPie             == <<"p","i","e">>
kwFlowchart       == <<"f","l","o","w","c","h","a","r","t">>
kwJourney         == <<"j","o","u","r","n","e","y">>
kwStartUml        == <<"@","s","t","a","r","t","u","m","l">>
kwEndUml          == <<"@","e","n","d","u","m","l">>
kwActor           == <<"a","c","t","o","r">>
kwParticipant     == <<"p","a","r","t","i","c","i","p","a","n","t">>
kwClass           == <<"c","l","a","s","s">>
kwInterface       == <<"i","n","t","e","r","f","a","c","e">>
kwDigraph         == <<"d","i","g","r","a","p","h">>
kwSubgraph        == <<"s","u","b","g","r","a","p","h">>
kwNode            == <<"n","o","d","e">>
kwEdge            == <<"e","d","g","e">>
opArrow           == <<"-",">">>
opDashes          == <<"-","-">>
opLongArrow       == <<"-","-",">">>
opLine            == <<"-","-","-">>
opThick           == <<"=","=",">">>
opDotted          == <<"-",".","-",">">>
GraphTD           == <<"g","r","a","p","h"," ","T","D">>

\* the keyword list of _infer_language's first test (source lines 79-81)
InferMermaidKeywords ==
    <<kwGraph, kwSequenceDiagram, kwClassDiagram, kwStateDiagram, kwErDiagram,
      kwGantt, kwPie, kwFlowchart, kwJourney>>
\* source lines 85-86
InferPlantumlKeywords ==
    <<kwStartUml, kwEndUml, kwActor, kwParticipant, kwClass, kwInterface>>
\* source line 90
InferDotKeywords == <<kwDigraph, kwGraph, kwSubgraph, kwNode, kwEdge>>

\* CodeBlockDetector._infer_language
infer_language(c) ==
    LET code_lower == Strip(Lower(c))
    IN  IF AnyIn(code_lower, InferMermaidKeywords) THEN MERMAID
        ELSE IF AnyIn(code_lower, InferPlantumlKeywords) THEN PLANTUML
        ELSE IF /\ AnyIn(code_lower, InferDotKeywords)
                /\ (Contains(c, opArrow) \/ Contains(c, opDashes)) THEN DOT
        ELSE UNKNOWN

-----------------------------------------------------------------------------
(* SyntaxValidator                                                         *)

IssueUnbalanced(n) ==
    [msg |-> "Line n: Unbalanced brackets - attempting to fix", line |-> n]
IssueMissingGraphType ==
    [msg |-> "Missing graph type declaration - adding 'graph TD'", line |-> 0]
IssueNoDiagramType ==
    [msg |-> "No valid diagram type found - prepending 'graph TD'", line |-> 0]
IssueMissingStart == [msg |-> "Missing @startuml tag - adding", line |-> 0]
IssueMissingEnd   == [msg |-> "Missing @enduml tag - adding", line |-> 0]
IssueMissingDecl  ==
    [msg |-> "Missing graph declaration - adding 'digraph G {'", line |-> 0]
IssueMissingBrace == [msg |-> "Missing closing brace - adding", line |-> 0]

OpenBrackets  == {"[", "(", "{"}
CloseBrackets == {"]", ")", "}"}

\* source lines 205-206
open_brackets(line)  == CountIn(line, OpenBrackets)
close_brackets(line) == CountIn(line, CloseBrackets)

\* the bracket fix closing one bracket however many are open
BalanceLineOneCloser(line) ==
    IF open_brackets(line) > close_brackets(line)
    THEN line \o <<"]">>
    ELSE line

\* source lines 207-211: the line after the bracket fix
BalanceLine(line) ==
    IF open_brackets(line) > close_brackets(line)
    THEN line \o Repeat("]", open_brackets(line) - close_brackets(line))
    ELSE line

\* source line 208: the issue the bracket fix records for 0-based line i
BalanceIssues(line, i) ==
    IF open_brackets(line) # close_brackets(line)
    THEN <<IssueUnbalanced(i + 1)>> ELSE <<>>

\* the keyword list of the per-line header test (source lines 219-220)
HeaderKeywords ==
    <<kwGraph, kwFlowchart, kwSequenceDiagram, kwClassDiagram, kwStateDiagram,
      kwErDiagram, kwGantt, kwPie, kwJourney>>

\* source lines 218-220: the header test on line i (after the bracket fix)
HeaderMissing(line, i) == i = 0 /\ ~AnyIn(Lower(line), HeaderKeywords)

\* the alternatives of the split pattern, in the pattern's order (line 227)
SplitOperators == <<opLongArrow, opLine, opArrow, opThick, opDotted>>

\* the characters the substitution of line 234 keeps
NodeChar(c) ==
    IsWord(c) \/ IsSpace(c) \/ c \in {"[", "]", "(", ")", "{", "}", "\"", "'", "-", ":"}

\* the first alternative of the split pattern that stands at position i, 0 if none
OperatorAt(line, i) ==
    LET hits == {k \in 1..Len(SplitOperators) : MatchAt(line, SplitOperators[k], i)}
    IN  IF hits = {} THEN 0 ELSE CHOOSE k \in hits : \A j \in hits : k <= j

\* source lines 227-236: split on the operators, clean the other parts, rejoin
RECURSIVE CleanFrom(_, _)
CleanFrom(line, i) ==
    IF i > Len(line) THEN <<>>
    ELSE LET k == OperatorAt(line, i)
         IN  IF k # 0
             THEN SplitOperators[k] \o CleanFrom(line, i + Len(SplitOperators[k]))
             ELSE (IF NodeChar(line[i]) THEN <<line[i]>> ELSE <<>>)
                  \o CleanFrom(line, i + 1)

\* source lines 225-236
SanitizeLine(line) ==
    IF Contains(line, opLongArrow) \/ Contains(line, opLine)
    THEN CleanFrom(line, 1) ELSE line

\* one iteration of the loop of _fix_mermaid (source lines 200-238):
\* the issues it records and the lines it appends to fixed_lines
MermaidLine(line, i) ==
    LET balanced == BalanceLine(line)
        header == HeaderMissing(balanced, i)
    IN  [issues |-> BalanceIssues(line, i)
                    \o (IF header THEN <<IssueMissingGraphType>> ELSE <<>>),
         lines  |-> (IF header THEN <<GraphTD>> ELSE <<>>)
                    \o <<SanitizeLine(balanced)>>]

RECURSIVE MermaidLoop(_, _)
MermaidLoop(lines, i) ==
    IF i >= Len(lines) THEN [issues |-> <<>>, lines |-> <<>>]
    ELSE LET here == MermaidLine(lines[i + 1], i)
             rest == MermaidLoop(lines, i + 1)
         IN  [issues |-> here.issues \o rest.issues,
              lines  |-> here.lines \o rest.lines]

\* the keyword list of the final test (source line 244)
GuardKeywords == <<kwGraph, kwFlowchart, kwSequenceDiagram, kwClassDiagram>>

\* the slice bound of source line 243
GuardPrefixLen == 50

\* the final test looking past the slice bound instead of before it
GuardFiresTail(fixed) ==
    LET n == IF Len(fixed) < GuardPrefixLen THEN Len(fixed) ELSE GuardPrefixLen
    IN  ~AnyIn(Slice(Lower(fixed), n + 1, Len(fixed)), GuardKeywords)

\* source lines 243-244
GuardFires(fixed) ==
    LET n == IF Len(fixed) < GuardPrefixLen THEN Len(fixed) ELSE GuardPrefixLen
    IN  ~AnyIn(Slice(Lower(fixed), 1, n), GuardKeywords)

\* SyntaxValidator._fix_mermaid
fix_mermaid(c) ==
    LET loop == MermaidLoop(SplitLines(c), 0)
        joined == JoinLines(loop.lines)
    IN  IF GuardFires(joined)
        THEN [fixed_code |-> GraphTD \o <<"\n">> \o joined,
              issues |-> loop.issues \o <<IssueNoDiagramType>>]
        ELSE [fixed_code |-> joined, issues |-> loop.issues]

\* source lines 255-257
PlantumlStart(c) ==
    IF ~StartsWith(Strip(c), kwStartUml)
    THEN [code |-> kwStartUml \o <<"\n">> \o c, issues |-> <<IssueMissingStart>>]
    ELSE [code |-> c, issues |-> <<>>]

\* the end-tag test made on the untrimmed code
PlantumlEndUntrimmed(c) ==
    IF ~EndsWith(c, kwEndUml)
    THEN [code |-> c \o <<"\n">> \o kwEndUml, issues |-> <<IssueMissingEnd>>]
    ELSE [code |-> c, issues |-> <<>>]

\* source lines 259-261
PlantumlEnd(c) ==
    IF ~EndsWith(Strip(c), kwEndUml)
    THEN [code |-> c \o <<"\n">> \o kwEndUml, issues |-> <<IssueMissingEnd>>]
    ELSE [code |-> c, issues |-> <<>>]

\* SyntaxValidator._fix_plantuml
fix_plantuml(c) ==
    LET a == PlantumlStart(c)
        b == PlantumlEnd(a.code)
    IN  [fixed_code |-> b.code, issues |-> a.issues \o b.issues]

\* length of the run of characters satisfying \s (resp. \w) that starts at i
RECURSIVE SpaceRun(_, _)
SpaceRun(s, i) == IF i <= Len(s) /\ IsSpace(s[i]) THEN 1 + SpaceRun(s, i + 1) ELSE 0
RECURSIVE WordRun(_, _)
WordRun(s, i) == IF i <= Len(s) /\ IsWord(s[i]) THEN 1 + WordRun(s, i + 1) ELSE 0

\* re.match(r'^\s*(di)?graph\s+\w*\s*\{', code, re.IGNORECASE), source line 270
DotDeclared(c) ==
    LET low == Lower(c)
        p0 == 1 + SpaceRun(low, 1)
        p1 == IF MatchAt(low, <<"d","i">>, p0) THEN p0 + 2 ELSE p0
        p2 == p1 + Len(kwGraph)
        w1 == SpaceRun(low, p2)
        p3 == p2 + w1
        p4 == p3 + WordRun(low, p3)
        p5 == p4 + SpaceRun(low, p4)
    IN  /\ MatchAt(low, kwGraph, p1)
        /\ w1 >= 1
        /\ MatchAt(low, <<"{">>, p5)

DigraphHeader == <<"d","i","g","r","a","p","h"," ","G"," ","{","\n">>

\* the declaration added without the issue being recorded
DotDeclarationUnreported(c) ==
    IF ~DotDeclared(c)
    THEN [code |-> DigraphHeader \o c, issues |-> <<>>]
    ELSE [code |-> c, issues |-> <<>>]

\* source lines 270-272
DotDeclaration(c) ==
    IF ~DotDeclared(c)
    THEN [code |-> DigraphHeader \o c, issues |-> <<IssueMissingDecl>>]
    ELSE [code |-> c, issues |-> <<>>]

\* the closing-brace test made on the untrimmed code
DotBraceUntrimmed(c) ==
    IF ~EndsWith(c, <<"}">>)
    THEN [code |-> c \o <<"\n", "}">>, issues |-> <<IssueMissingBrace>>]
    ELSE [code |-> c, issues |-> <<>>]

\* source lines 275-277
DotBrace(c) ==
    IF ~EndsWith(Strip(c), <<"}">>)
    THEN [code |-> c \o <<"\n", "}">>, issues |-> <<IssueMissingBrace>>]
    ELSE [code |-> c, issues |-> <<>>]

\* SyntaxValidator._fix_dot
fix_dot(c) ==
    LET a == DotDeclaration(c)
        b == DotBrace(a.code)
    IN  [fixed_code |-> b.code, issues |-> a.issues \o b.issues]

\* SyntaxValidator.validate_and_fix
validate_and_fix(c, lang) ==
    IF lang = MERMAID THEN fix_mermaid(c)
    ELSE IF lang = PLANTUML THEN fix_plantuml(c)
    ELSE IF lang = DOT THEN fix_dot(c)
    ELSE [fixed_code |-> c, issues |-> <<>>]

-----------------------------------------------------------------------------
(* CodeBlockDetector                                                       *)

\* the dict detect_blocks appends for a match (source lines 44-51, 57-64);
\* a and b are the 1-based positions of the first and the last character
Block(t, a, b, lang, body, fmt) ==
    [start_pos |-> a - 1, end_pos |-> b, language |-> lang,
     code |-> Strip(body), original_text |-> Slice(t, a, b), format |-> fmt]

NoMatch == [ok |-> FALSE]

\* match.group(1) if match.group(1) else self._infer_language(match.group(2))
TagOrInferred(tag, body) == IF tag # <<>> THEN tag ELSE infer_language(body)

\* the grave accent (U+0060), a character a TLA+ string cannot hold
Backtick == "grave"

\* one attempt of a fenced pattern, fence (\w+)? \n (.*?) fence (source
\* lines 22-23), at position s: the tag is the whole word run, a newline
\* must follow it, and the lazy body runs to the first later occurrence of
\* fence
FenceMatchAt(t, fence, s) ==
    LET p == s + Len(fence)
        nl == p + WordRun(t, p)
        close == Find(t, fence, nl + 1)
        last == close + Len(fence) - 1
        body == Slice(t, nl + 1, close - 1)
    IN  IF /\ MatchAt(t, fence, s)
           /\ MatchAt(t, <<"\n">>, nl)
           /\ close # 0
        THEN [ok |-> TRUE, last |-> last,
              block |-> Block(t, s, last, TagOrInferred(Slice(t, p, nl - 1), body),
                              body, "standard")]
        ELSE NoMatch

\* the greatest position in a..(a + n - 1) holding a newline, 0 if none
LastNewline(t, a, n) ==
    LET hits == {i \in a..(a + n - 1) : t[i] = "\n"}
    IN  IF hits = {} THEN 0 ELSE CHOOSE i \in hits : \A j \in hits : i >= j

\* the part \s*(\w+)?\s*\n of the two HTML patterns, tried at position p in
\* the order the backtracking matcher tries it: the longest leading space
\* run, the tag present and as long as possible, then the longest second
\* space run that still leaves a newline to match
TagHeader(t, p) ==
    LET w1 == SpaceRun(t, p)
        w == WordRun(t, p + w1)
        nlAfterTag == LastNewline(t, p + w1 + w, SpaceRun(t, p + w1 + w))
        nlBeforeTag == LastNewline(t, p, w1)
    IN  IF w >= 1 /\ nlAfterTag # 0
        THEN [ok |-> TRUE, tag |-> Slice(t, p + w1, p + w1 + w - 1), body |-> nlAfterTag + 1]
        ELSE IF nlBeforeTag # 0
        THEN [ok |-> TRUE, tag |-> <<>>, body |-> nlBeforeTag + 1]
        ELSE NoMatch

\* one attempt of r'<code[^>]*>\s*(\w+)?\s*\n(.*?)</code>' or of the <pre>
\* pattern (source lines 28, 30) at position s, ignoring case
HtmlMatchAt(t, open, close, s) ==
    LET low == Lower(t)
        gt == Find(low, <<">">>, s + Len(open))
        head == IF gt = 0 THEN NoMatch ELSE TagHeader(t, gt + 1)
        end == IF head.ok THEN Find(low, close, head.body) ELSE 0
        last == end + Len(close) - 1
        body == Slice(t, head.body, end - 1)
    IN  IF MatchAt(low, open, s) /\ end # 0
        THEN [ok |-> TRUE, last |-> last,
              block |-> Block(t, s, last, TagOrInferred(head.tag, body), body, "nonstandard")]
        ELSE NoMatch

bbOpen  == <<"[","c","o","d","e">>
bbClose == <<"[","/","c","o","d","e","]">>
bbLang  == <<"l","a","n","g","=">>

\* the part (?:\s+lang="?(\w+)"?)?\] of the BBCode pattern at position p
BBHeader(t, p) ==
    LET low == Lower(t)
        q == p + SpaceRun(t, p)
        r == q + Len(bbLang)
        r2 == IF MatchAt(t, <<"\"">>, r) THEN r + 1 ELSE r
        r3 == r2 + WordRun(t, r2)
        r4 == IF MatchAt(t, <<"\"">>, r3) THEN r3 + 1 ELSE r3
    IN  IF q > p /\ MatchAt(low, bbLang, q) /\ r3 > r2 /\ MatchAt(t, <<"]">>, r4)
        THEN [ok |-> TRUE, tag |-> Slice(t, r2, r3 - 1), body |-> r4 + 1]
        ELSE IF MatchAt(t, <<"]">>, p)
        THEN [ok |-> TRUE, tag |-> <<>>, body |-> p + 1]
        ELSE NoMatch

\* one attempt of r'\[code(?:\s+lang="?(\w+)"?)?\](.*?)\[/code\]' (source
\* line 29) at position s, ignoring case
BBMatchAt(t, s) ==
    LET low == Lower(t)
        head == BBHeader(t, s + Len(bbOpen))
        end == IF head.ok THEN Find(low, bbClose, head.body) ELSE 0
        last == end + Len(bbClose) - 1
        body == Slice(t, head.body, end - 1)
    IN  IF MatchAt(low, bbOpen, s) /\ end # 0
        THEN [ok |-> TRUE, last |-> last,
              block |-> Block(t, s, last, TagOrInferred(head.tag, body), body, "nonstandard")]
        ELSE NoMatch

\* self.standard_patterns followed by self.nonstandard_patterns
Patterns == <<"backticks", "tildes", "code", "bbcode", "pre">>

PatternMatchAt(pat, t, s) ==
    CASE pat = "backticks" -> FenceMatchAt(t, <<Backtick, Backtick, Backtick>>, s)
      [] pat = "tildes"    -> FenceMatchAt(t, <<"~","~","~">>, s)
      [] pat = "code"      -> HtmlMatchAt(t, <<"<","c","o","d","e">>,
                                          <<"<","/","c","o","d","e",">">>, s)
      [] pat = "bbcode"    -> BBMatchAt(t, s)
      [] pat = "pre"       -> HtmlMatchAt(t, <<"<","p","r","e">>,
                                          <<"<","/","p","r","e",">">>, s)

\* re.finditer(pattern, text, ...): the leftmost match from s on, then the
\* leftmost match after its end, and so on
RECURSIVE FindIter(_, _, _)
FindIter(pat, t, s) ==
    IF s > Len(t) THEN <<>>
    ELSE LET m == PatternMatchAt(pat, t, s)
         IN  IF m.ok THEN <<m.block>> \o FindIter(pat, t, m.last + 1)
             ELSE FindIter(pat, t, s + 1)

\* the two loops of detect_blocks over the pattern lists (source lines 41-64)
RECURSIVE PatternBlocks(_, _)
PatternBlocks(t, k) ==
    IF k > Len(Patterns) THEN <<>>
    ELSE FindIter(Patterns[k], t, 1) \o PatternBlocks(t, k + 1)

SpecialChars ==
    {"[", "]", "{", "}", "(", ")", "-", ">", "=", "|", ":", ";", "*", "+", "#", "@"}

\* CodeBlockDetector._is_gibberish_line; special / total > 0.2 is computed
\* in integers as 5 * special > total
is_gibberish_line(line) ==
    LET special_chars == CountIn(line, SpecialChars)
        total_chars == Len(Strip(line))
    IN  /\ Strip(line) # <<>>
        /\ total_chars # 0
        /\ 5 * special_chars > total_chars

\* the offset summed without the newline that ends each line
RECURSIVE LineOffsetNoNewline(_, _)
LineOffsetNoNewline(lines, start_line) ==
    IF start_line = 0 THEN 0
    ELSE LineOffsetNoNewline(lines, start_line - 1) + Len(lines[start_line])

\* sum(len(lines[j]) + 1 for j in range(start_line))
RECURSIVE LineOffset(_, _)
LineOffset(lines, start_line) ==
    IF start_line = 0 THEN 0
    ELSE LineOffset(lines, start_line - 1) + Len(lines[start_line]) + 1

\* the dict of source lines 116-127 for the run of n lines from 0-based
\* line start_line
GibberishBlock(lines, start_line, n) ==
    LET c == JoinLines(SubSeq(lines, start_line + 1, start_line + n))
        start == LineOffset(lines, start_line)
    IN  [start_pos |-> start, end_pos |-> start + Len(c),
         language |-> infer_language(c), code |-> c, original_text |-> c,
         format |-> "gibberish_detected"]

\* the loop of _detect_gibberish_blocks from 0-based line i on, with
\* len(current_block) = n, gibberish_count = g and start_line as given
RECURSIVE GibberishLoop(_, _, _, _, _)
GibberishLoop(lines, i, start_line, n, g) ==
    IF i >= Len(lines) THEN <<>>
    ELSE IF is_gibberish_line(lines[i + 1])
    THEN GibberishLoop(lines, i + 1, IF n = 0 THEN i ELSE start_line, n + 1, g + 1)
    ELSE (IF n >= 3 /\ g >= 2 THEN <<GibberishBlock(lines, start_line, n)>> ELSE <<>>)
         \o GibberishLoop(lines, i + 1, -1, 0, 0)

\* CodeBlockDetector._detect_gibberish_blocks
detect_gibberish_blocks(t) == GibberishLoop(SplitLines(t), 0, -1, 0, 0)

\* the sort key (start_pos, -end_pos): does a sort strictly before b
KeyLess(a, b) ==
    \/ a.start_pos < b.start_pos
    \/ a.start_pos = b.start_pos /\ a.end_pos > b.end_pos

\* list.sort is stable: x goes after every element that does not sort after it
RECURSIVE InsertSorted(_, _)
InsertSorted(sorted, x) ==
    IF Len(sorted) = 0 THEN <<x>>
    ELSE IF KeyLess(x, Head(sorted)) THEN <<x>> \o sorted
    ELSE <<Head(sorted)>> \o InsertSorted(Tail(sorted), x)

\* blocks.sort(key=lambda x: (x['start_pos'], -x['end_pos']))
RECURSIVE SortBlocks(_)
SortBlocks(bs) ==
    IF Len(bs) = 0 THEN <<>>
    ELSE InsertSorted(SortBlocks(SubSeq(bs, 1, Len(bs) - 1)), bs[Len(bs)])

\* the sweep testing the candidate against the start of the last kept block
SweepStepFromStart(result, block) ==
    LET last == result[Len(result)]
    IN  IF block.start_pos >= last.start_pos THEN Append(result, block)
        ELSE IF block.end_pos > last.end_pos
        THEN [result EXCEPT ![Len(result)] = block]
        ELSE result

\* one iteration of the sweep (source lines 160-166)
SweepStep(result, block) ==
    LET last == result[Len(result)]
    IN  IF block.start_pos >= last.end_pos THEN Append(result, block)
        ELSE IF block.end_pos > last.end_pos
        THEN [result EXCEPT ![Len(result)] = block]
        ELSE result

RECURSIVE Sweep(_, _, _)
Sweep(result, sorted, k) ==
    IF k > Len(sorted) THEN result
    ELSE Sweep(SweepStep(result, sorted[k]), sorted, k + 1)

\* CodeBlockDetector._deduplicate_blocks
deduplicate_blocks(bs) ==
    IF Len(bs) = 0 THEN <<>>
    ELSE LET sorted == SortBlocks(bs)
         IN  Sweep(<<sorted[1]>>, sorted, 2)

\* the candidates detect_blocks has gathered when it reaches line 70
Candidates(t) == PatternBlocks(t, 1) \o detect_gibberish_blocks(t)

\* CodeBlockDetector.detect_blocks
detect_blocks(t) == deduplicate_blocks(Candidates(t))

-----------------------------------------------------------------------------
(* Bounded inputs                                                          *)

\* concatenation of a sequence of strings
RECURSIVE Concat(_)
Concat(ps) == IF Len(ps) = 0 THEN <<>> ELSE Head(ps) \o Concat(Tail(ps))

\* the sequences over S of length at most n
SeqsUpTo(S, n) == UNION {[1..k -> S] : k \in 0..n}

\* every concatenation of at most n members of the sequence of pieces P
Compose(P, n) ==
    {Concat([i \in DOMAIN f |-> P[f[i]]]) : f \in SeqsUpTo(DOMAIN P, n)}

\* a code argument is made of at most MaxCodePieces of these fragments
MaxCodePieces == 3
CodePieces ==
    << <<"g","r","a","p","h"," ","T","D">>,
       <<"c","l","a","s","s","D","i","a","g","r","a","m">>,
       <<"g","a","n","t","t">>,
       <<"\n">>,
       <<"A"," ","-","-",">"," ","B",";">>,
       <<"B","{","D">>,
       <<"]">>,
       <<"@","s","t","a","r","t","u","m","l">>,
       <<"@","e","n","d","u","m","l">>,
       <<"a","c","t","o","r"," ","U">>,
       <<"d","i","g","r","a","p","h"," ","G"," ","{">>,
       <<"}">>,
       <<"n","o","d","e"," ","-",">"," ","e">>,
       <<" ">> >>
CodeInputs == Compose(CodePieces, MaxCodePieces)

\* an input text is made of at most MaxTextPieces of these fragments
MaxTextPieces == 3
TextPieces ==
    << <<Backtick, Backtick, Backtick>>,
       <<"~","~","~">>,
       <<"\n">>,
       <<"m","e","r","m","a","i","d","\n">>,
       <<"-",">","\n","-",">","\n">>,
       <<"a"," ">>,
       <<"<","c","o","d","e",">">>,
       <<"<","/","c","o","d","e",">">>,
       <<"[","c","o","d","e","]">>,
       <<"[","/","c","o","d","e","]">>,
       <<"<","P","R","E",">","\n">>,
       <<"<","/","p","r","e",">">>,
       <<"-",">",Backtick,Backtick,Backtick,"\n","A","-","-",">","B","\n",
         Backtick,Backtick,Backtick,"-",">","\n">>,
       <<"-",">","~","~","~","\n","~","~","~">> >>
TextInputs == Compose(TextPieces, MaxTextPieces)

\* a candidate pool holds at most MaxPool spans with offsets up to MaxPos
MaxPool == 3
MaxPos == 4
Spans == {[start_pos |-> a, end_pos |-> b] : a, b \in 0..MaxPos}
PoolInputs == SeqsUpTo({sp \in Spans : sp.start_pos < sp.end_pos}, MaxPool)

\* a document given to process is made of at most MaxProcessPieces of these
\* snippets: a tagged mermaid block with a defect, an untagged mermaid
\* block, an HTML block of plantuml, a BBCode block of no known language, a
\* block tagged with a foreign language, a tagged dot block, a tagged
\* plantuml block
MaxProcessPieces == 3
ProcessPieces ==
    << <<Backtick,Backtick,Backtick,"m","e","r","m","a","i","d","\n","A",
         "-","-",">","B",";","\n",Backtick,Backtick,Backtick,"\n">>,
       <<Backtick,Backtick,Backtick,"\n","g","r","a","p","h"," ","T","D",
         "\n",Backtick,Backtick,Backtick,"\n">>,
       <<"<","c","o","d","e",">","\n","a","c","t","o","r"," ","U","\n","<",
         "/","c","o","d","e",">","\n">>,
       <<"[","c","o","d","e","]","x","[","/","c","o","d","e","]","\n">>,
       <<"~","~","~","p","y","\n","x","\n","~","~","~","\n">>,
       <<Backtick,Backtick,Backtick,"d","o","t","\n","a"," ","-",">"," ",
         "b","\n",Backtick,Backtick,Backtick,"\n">>,
       <<"~","~","~","p","l","a","n","t","u","m","l","\n","@","s","t","a",
         "r","t","u","m","l","\n","~","~","~","\n">> >>
ProcessInputs == Compose(ProcessPieces, MaxProcessPieces)

\* the language arguments: the four tags the code knows and a foreign one
Languages == {MERMAID, PLANTUML, DOT, UNKNOWN, <<"p","y">>}

NoStats == [total_blocks |-> 0, validated_blocks |-> 0, fixed_blocks |-> 0,
            rendered_blocks |-> 0, failed_blocks |-> 0, issues |-> <<>>]

\* the renderer's temp_dir as tempfile.mkdtemp() leaves it: no files
NoFiles == [p \in {} |-> <<>>]

\* before _generate_output has run nothing is written
NoDocument == [kind |-> "none", sections |-> <<>>]

\* the output_path arguments of process: the three cases of _generate_output
OutputPaths ==
    { <<"o","u","t",".","h","t","m","l">>, <<"o","u","t",".","m","d">>,
      <<"o","u","t">> }

-----------------------------------------------------------------------------
(* Inference and repair of one code string                                 *)

InitRepair ==
    /\ pc = "code"
    /\ code \in CodeInputs
    /\ language = <<>>
    /\ inferred = <<>>
    /\ fixed_code = <<>>
    /\ issues = <<>>
    /\ text = <<>>
    /\ pool = <<>>
    /\ blocks = <<>>
    /\ idx = 0
    /\ stats = NoStats
    /\ processed_blocks = <<>>
    /\ calls = <<>>
    /\ files = NoFiles
    /\ document = NoDocument

\* a call of CodeBlockDetector._infer_language(code)
InferLanguage ==
    /\ pc = "code"
    /\ inferred' = infer_language(code)
    /\ pc' = "inferred"
    /\ UNCHANGED <<text, pool, blocks, code, language, fixed_code, issues,
                   idx, stats, processed_blocks, calls,
                   files, document>>

\* a call of SyntaxValidator.validate_and_fix(code, lang)
ValidateAndFix ==
    /\ pc = "inferred"
    /\ \E lang \in Languages :
         LET r == validate_and_fix(code, lang)
         IN  /\ language' = lang
             /\ fixed_code' = r.fixed_code
             /\ issues' = r.issues
    /\ pc' = "fixed"
    /\ UNCHANGED <<text, pool, blocks, code, inferred,
                   idx, stats, processed_blocks, calls,
                   files, document>>

NextRepair == InferLanguage \/ ValidateAndFix

SpecRepair == InitRepair /\ [][NextRepair]_vars

-----------------------------------------------------------------------------
(* Claims about inference and repair, checked under SpecRepair             *)

\* the nine diagram-type keywords, all in lower case
DiagramTypeKeywords ==
    <<kwGraph, kwSequenceDiagram, Lower(kwClassDiagram), kwStateDiagram,
      kwErDiagram, kwGantt, kwPie, kwFlowchart, kwJourney>>

\* the rule order the documentation gives for inference
DocumentedLanguage(c) ==
    IF AnyIn(Lower(c), DiagramTypeKeywords) THEN MERMAID
    ELSE IF AnyIn(Lower(c), InferPlantumlKeywords) THEN PLANTUML
    ELSE IF /\ AnyIn(Lower(c), InferDotKeywords)
            /\ (Contains(c, opArrow) \/ Contains(c, opDashes)) THEN DOT
    ELSE UNKNOWN

\* C3: _infer_language returns mermaid when the code contains, in any case,
\* one of the nine diagram-type keywords, else plantuml on a plantuml
\* keyword, else dot on a dot keyword together with '->' or '--', else
\* unknown.
C3_InferenceFollowsDocumentedRules ==
    pc # "code" => inferred = DocumentedLanguage(code)

Repaired(lang) == pc = "fixed" /\ language = lang

InIssues(issue) == \E k \in 1..Len(issues) : issues[k] = issue

\* C4: mermaid repair records the missing-graph-type issue exactly when the
\* first line contains none of the nine diagram-type keywords (in any
\* case), and then fixed_code starts with a 'graph TD' line.
C4_HeaderFixExactlyWithoutKeyword ==
    Repaired(MERMAID) =>
        LET first == SplitLines(code)[1]
            missing == ~AnyIn(Lower(first), DiagramTypeKeywords)
        IN  /\ InIssues(IssueMissingGraphType) <=> missing
            /\ missing => SplitLines(fixed_code)[1] = GraphTD

\* the line of fixed_code that input line i (1-based) became: repair only
\* ever adds lines at the top
OutputLine(i) ==
    SplitLines(fixed_code)[i + Len(SplitLines(fixed_code)) - Len(SplitLines(code))]

\* C5: for every line with k > 0 more opening than closing brackets,
\* mermaid repair appends exactly k ']' to that line and records an
\* unbalanced-brackets issue with the line's 1-based index in the input.
C5_BracketFixAppendsMissingClosers ==
    Repaired(MERMAID) =>
        \A i \in 1..Len(SplitLines(code)) :
            LET line == SplitLines(code)[i]
                k == open_brackets(line) - close_brackets(line)
                out == OutputLine(i)
            IN  k > 0 =>
                  /\ Len(out) >= k
                  /\ \A j \in (Len(out) - k + 1)..Len(out) : out[j] = "]"
                  /\ CountIn(out, {"]"}) = CountIn(line, {"]"}) + k
                  /\ close_brackets(out) = close_brackets(line) + k
                  /\ open_brackets(out) = open_brackets(line)
                  /\ InIssues(IssueUnbalanced(i))

\* a line other than the first, two brackets short, has been repaired
C5_Witness ==
    /\ Repaired(MERMAID)
    /\ \E i \in 2..Len(SplitLines(code)) :
         /\ open_brackets(SplitLines(code)[i]) - close_brackets(SplitLines(code)[i]) = 2
         /\ EndsWith(OutputLine(i), <<"]", "]">>)

\* C6: plantuml repair leaves a trimmed fixed_code that starts with
\* '@startuml' and ends with '@enduml'; it records the missing-start issue
\* exactly when the trimmed input did not start with '@startuml' and the
\* missing-end issue exactly when it did not end with '@enduml', the start
\* issue first; the input stands unchanged between the added lines.
C6_PlantumlTagsAdded ==
    Repaired(PLANTUML) =>
        LET noStart == ~StartsWith(Strip(code), kwStartUml)
            noEnd == ~EndsWith(Strip(code), kwEndUml)
        IN  /\ StartsWith(Strip(fixed_code), kwStartUml)
            /\ EndsWith(Strip(fixed_code), kwEndUml)
            /\ issues = (IF noStart THEN <<IssueMissingStart>> ELSE <<>>)
                        \o (IF noEnd THEN <<IssueMissingEnd>> ELSE <<>>)
            /\ fixed_code = (IF noStart THEN kwStartUml \o <<"\n">> ELSE <<>>)
                            \o code
                            \o (IF noEnd THEN <<"\n">> \o kwEndUml ELSE <<>>)

\* both tags were missing from a non-empty input
C6_Witness ==
    /\ Repaired(PLANTUML)
    /\ Strip(code) # <<>>
    /\ issues = <<IssueMissingStart, IssueMissingEnd>>

\* C7: dot repair leaves a fixed_code that begins with a graph declaration
\* and whose trimmed form ends with '}'; 'digraph G {' is prepended, with
\* an issue, exactly when the input did not begin with a declaration, and
\* '}' appended, with an issue, exactly when the trimmed (possibly
\* prefixed) code did not end with '}'; the declaration issue comes first.
C7_DotDeclarationAndBraceAdded ==
    Repaired(DOT) =>
        LET noDecl == ~DotDeclared(code)
            prefixed == IF noDecl
                        THEN <<"d","i","g","r","a","p","h"," ","G"," ","{","\n">> \o code
                        ELSE code
            noBrace == ~EndsWith(Strip(prefixed), <<"}">>)
        IN  /\ DotDeclared(fixed_code)
            /\ EndsWith(Strip(fixed_code), <<"}">>)
            /\ issues = (IF noDecl THEN <<IssueMissingDecl>> ELSE <<>>)
                        \o (IF noBrace THEN <<IssueMissingBrace>> ELSE <<>>)
            /\ fixed_code = prefixed \o (IF noBrace THEN <<"\n", "}">> ELSE <<>>)

\* declaration and brace were both missing from a non-empty input
C7_Witness ==
    /\ Repaired(DOT)
    /\ Strip(code) # <<>>
    /\ issues = <<IssueMissingDecl, IssueMissingBrace>>

\* C10: whenever repair returns no issues, fixed_code is the input code.
C10_NoIssuesMeansUnchanged ==
    (pc = "fixed" /\ issues = <<>>) => fixed_code = code

\* the input with the node-id substitution applied to every line that holds
\* '-->' or '---', and nothing else changed
NodeIdsCleaned(c) ==
    LET lines == SplitLines(c)
    IN  JoinLines([i \in 1..Len(lines) |->
                     IF Contains(lines[i], opLongArrow) \/ Contains(lines[i], opLine)
                     THEN CleanFrom(lines[i], 1) ELSE lines[i]])

\* C10 (amended): whenever repair returns no issues, fixed_code is the
\* input code, except that for mermaid the lines holding '-->' or '---'
\* have had the characters that are not allowed in node ids removed.
C10_NoIssuesMeansOnlyNodeIdsCleaned ==
    (pc = "fixed" /\ issues = <<>>) =>
        fixed_code = (IF language = MERMAID THEN NodeIdsCleaned(code) ELSE code)

\* a mermaid repair changed the code and reported nothing
C10_Witness ==
    /\ Repaired(MERMAID)
    /\ issues = <<>>
    /\ fixed_code # code

\* the lines of a mermaid input to which the bracket fix appended closers
LinesClosed ==
    {i \in 1..Len(SplitLines(code)) :
        CountIn(OutputLine(i), {"]"}) > CountIn(SplitLines(code)[i], {"]"})}

\* the fixes visible in fixed_code: every fix either adds one line to the
\* code or appends closers to one line of it
FixesApplied ==
    (Len(SplitLines(fixed_code)) - Len(SplitLines(code)))
    + (IF language = MERMAID THEN Cardinality(LinesClosed) ELSE 0)

\* C11: every entry of issues corresponds to a fix that was applied:
\* whenever issues is non-empty fixed_code differs from the input code, and
\* the number of issues equals the number of fixes applied.
C11_EveryIssueIsAnAppliedFix ==
    pc = "fixed" =>
        /\ issues # <<>> => fixed_code # code
        /\ Len(issues) = FixesApplied

\* the code the loop of _fix_mermaid reassembles, before the final test
Reassembled(c) == JoinLines(MermaidLoop(SplitLines(c), 0).lines)

\* the first 50 characters of s, lower-cased
LowerPrefix(s) ==
    Slice(Lower(s), 1, IF Len(s) < GuardPrefixLen THEN Len(s) ELSE GuardPrefixLen)

\* C12: the final test of mermaid repair records its issue and prepends
\* 'graph TD' exactly when none of the nine diagram-type keywords occurs in
\* the first 50 characters of the reassembled code, so that a block opening
\* with gantt, pie, statediagram, erdiagram or journey gets no prefix.
C12_GuardFiresExactlyWithoutKeyword ==
    Repaired(MERMAID) =>
        LET none == ~AnyIn(LowerPrefix(Reassembled(code)), DiagramTypeKeywords)
        IN  /\ InIssues(IssueNoDiagramType) <=> none
            /\ fixed_code = (IF none THEN GraphTD \o <<"\n">> ELSE <<>>)
                             \o Reassembled(code)

\* C13: some mermaid input makes the per-line header fix and the final
\* test both fire in one call, which leaves two 'graph TD' lines on top.
C13_DoublePrefixExists ==
    \E c \in CodeInputs \cup {code} :
        LET r == fix_mermaid(c)
        IN  /\ \E k \in 1..Len(r.issues) : r.issues[k] = IssueMissingGraphType
            /\ \E k \in 1..Len(r.issues) : r.issues[k] = IssueNoDiagramType

\* C13 (amended): no mermaid input makes the header fix and the final test
\* both fire in one call: the 'graph TD' line the header fix adds is what
\* the final test finds, so repair adds at most one line to the code.
C13_HeaderFixSilencesGuard ==
    Repaired(MERMAID) =>
        /\ ~(InIssues(IssueMissingGraphType) /\ InIssues(IssueNoDiagramType))
        /\ Len(SplitLines(fixed_code)) <= Len(SplitLines(code)) + 1

\* the header fix fired on an input the final test would have rejected
C13_Witness ==
    /\ Repaired(MERMAID)
    /\ InIssues(IssueMissingGraphType)
    /\ GuardFires(code)
    /\ SplitLines(fixed_code)[1] = GraphTD

-----------------------------------------------------------------------------
(* Detection of the blocks of one text                                     *)

InitDetect ==
    /\ pc = "text"
    /\ text \in TextInputs
    /\ pool = <<>>
    /\ blocks = <<>>
    /\ code = <<>>
    /\ language = <<>>
    /\ inferred = <<>>
    /\ fixed_code = <<>>
    /\ issues = <<>>
    /\ idx = 0
    /\ stats = NoStats
    /\ processed_blocks = <<>>
    /\ calls = <<>>
    /\ files = NoFiles
    /\ document = NoDocument

\* a call of CodeBlockDetector.detect_blocks(text)
DetectBlocks ==
    /\ pc = "text"
    /\ pool' = Candidates(text)
    /\ blocks' = detect_blocks(text)
    /\ pc' = "detected"
    /\ UNCHANGED <<text, code, language, inferred, fixed_code, issues,
                   idx, stats, processed_blocks, calls,
                   files, document>>

NextDetect == DetectBlocks

SpecDetect == InitDetect /\ [][NextDetect]_vars

-----------------------------------------------------------------------------
(* Deduplication of one candidate pool                                     *)

InitDedup ==
    /\ pc = "pool"
    /\ pool \in PoolInputs
    /\ text = <<>>
    /\ blocks = <<>>
    /\ code = <<>>
    /\ language = <<>>
    /\ inferred = <<>>
    /\ fixed_code = <<>>
    /\ issues = <<>>
    /\ idx = 0
    /\ stats = NoStats
    /\ processed_blocks = <<>>
    /\ calls = <<>>
    /\ files = NoFiles
    /\ document = NoDocument

\* a call of CodeBlockDetector._deduplicate_blocks(pool)
Deduplicate ==
    /\ pc = "pool"
    /\ blocks' = deduplicate_blocks(pool)
    /\ pc' = "deduplicated"
    /\ UNCHANGED <<text, pool, code, language, inferred, fixed_code, issues,
                   idx, stats, processed_blocks, calls,
                   files, document>>

NextDedup == Deduplicate

SpecDedup == InitDedup /\ [][NextDedup]_vars

-----------------------------------------------------------------------------
(* Claims about detection                                                  *)

\* C1: the list detect_blocks returns (the result of _deduplicate_blocks,
\* for every pool of candidates) is sorted by ascending start_pos and
\* pairwise non-overlapping: each block starts at or after the end of the
\* block before it.
C1_BlocksSortedAndDisjoint ==
    pc \in {"deduplicated", "detected"} =>
        \A k \in 1..(Len(blocks) - 1) :
            /\ blocks[k].start_pos <= blocks[k + 1].start_pos
            /\ blocks[k + 1].start_pos >= blocks[k].end_pos

\* two blocks were kept out of a pool of three overlapping candidates given
\* out of order
C1_Witness ==
    /\ pc = "deduplicated"
    /\ Len(pool) = 3
    /\ Len(blocks) = 2
    /\ pool[1].start_pos > pool[2].start_pos
    /\ \E i, j \in 1..3 : i # j /\ pool[i].start_pos < pool[j].end_pos
                                /\ pool[j].start_pos < pool[i].end_pos

\* C2: every block detect_blocks returns, whichever strategy produced it,
\* satisfies 0 <= start_pos < end_pos <= len(text) and
\* text[start_pos:end_pos] == original_text.
C2_SpansAreSlicesOfText ==
    pc = "detected" =>
        \A k \in 1..Len(blocks) :
            /\ 0 <= blocks[k].start_pos
            /\ blocks[k].start_pos < blocks[k].end_pos
            /\ blocks[k].end_pos <= Len(text)
            /\ Slice(text, blocks[k].start_pos + 1, blocks[k].end_pos)
                   = blocks[k].original_text

\* a gibberish block that does not start the text was returned
C2_Witness ==
    /\ pc = "detected"
    /\ \E k \in 1..Len(blocks) :
         /\ blocks[k].format = "gibberish_detected"
         /\ blocks[k].start_pos > 0


\* two spans share a position
Overlap(a, b) == a.start_pos < b.end_pos /\ b.start_pos < a.end_pos

Span(b) == b.end_pos - b.start_pos

\* a candidate of the pool is in the result
Retained(p) == \E k \in 1..Len(blocks) : blocks[k] = p

\* C14: on overlap the larger span is preferred: the block kept for a
\* group of overlapping candidates spans at least as much as every
\* candidate it displaced.
C14_KeptBlockSpansMost ==
    pc \in {"deduplicated", "detected"} =>
        \A i \in 1..Len(pool) : \A k \in 1..Len(blocks) :
            (~Retained(pool[i]) /\ Overlap(pool[i], blocks[k]))
                => Span(blocks[k]) >= Span(pool[i])

\* the maximal runs of flagged lines, at least three long, as pairs of
\* 1-based line numbers
MaximalRuns(lines) ==
    {r \in (1..Len(lines)) \X (1..Len(lines)) :
        /\ r[2] - r[1] + 1 >= 3
        /\ \A i \in r[1]..r[2] : is_gibberish_line(lines[i])
        /\ r[1] = 1 \/ ~is_gibberish_line(lines[r[1] - 1])
        /\ r[2] = Len(lines) \/ ~is_gibberish_line(lines[r[2] + 1])}

GibberishCandidates ==
    {k \in 1..Len(pool) : pool[k].format = "gibberish_detected"}

\* C15: the gibberish strategy emits one candidate for each maximal run of
\* three or more consecutive flagged lines, wherever the run lies, the
\* last line of the text included, and none for a shorter run; an
\* unflagged line ends the run.
C15_OneCandidatePerMaximalRun ==
    pc = "detected" =>
        LET lines == SplitLines(text)
            runs == MaximalRuns(lines)
        IN  /\ Cardinality(GibberishCandidates) = Cardinality(runs)
            /\ \A r \in runs : \E k \in GibberishCandidates :
                  /\ pool[k].start_pos = LineOffset(lines, r[1] - 1)
                  /\ pool[k].code = JoinLines(SubSeq(lines, r[1], r[2]))

\* C16: the body of a fenced block ends only at a closing fence that
\* starts a line; a fence token in the middle of a line does not end it.
C16_ClosingFenceStartsALine ==
    pc = "detected" =>
        \A k \in 1..Len(pool) :
            pool[k].format = "standard" => text[pool[k].end_pos - 3] = "\n"

\* C17: deduplication discards a candidate only when it overlaps a block
\* of the final result.
C17_DiscardedOverlapsRetained ==
    pc \in {"deduplicated", "detected"} =>
        \A i \in 1..Len(pool) :
            ~Retained(pool[i]) =>
                \E k \in 1..Len(blocks) : Overlap(pool[i], blocks[k])

-----------------------------------------------------------------------------
(* LLMOutputProcessor.process                                              *)

RenderedLanguages == {MERMAID, PLANTUML, DOT}

\* None, which the tests of source lines 441 and 511 take for false as they
\* would the empty string; every path the renderer returns is non-empty
None == <<>>

\* the output_format the constructor defaults to (source line 398)
output_format == <<"h","t","m","l">>

\* open(path, 'w').write(content) in the file system fs
WriteFile(fs, path, content) ==
    [p \in DOMAIN fs \cup {path} |-> IF p = path THEN content ELSE fs[p]]

\* the content of a text file
TextFile(data) == [kind |-> "text", data |-> data]

\* what an external tool writes when it renders the code c
ToolOutput(tool, c) == [kind |-> "rendering", tool |-> tool, of |-> c]

\* the template of source lines 335-347, before and after {code}
MermaidHtmlHead ==
    <<"<","!","D","O","C","T","Y","P","E"," ","h","t","m","l",">","\n",
      "<","h","t","m","l",">","\n","<","h","e","a","d",">","\n"," "," ",
      " "," ","<","m","e","t","a"," ","c","h","a","r","s","e","t","=",
      "\"","u","t","f","-","8","\"",">","\n"," "," "," "," ","<","s","c",
      "r","i","p","t"," ","s","r","c","=","\"","h","t","t","p","s",":",
      "/","/","c","d","n",".","j","s","d","e","l","i","v","r",".","n","e",
      "t","/","n","p","m","/","m","e","r","m","a","i","d","/","d","i","s",
      "t","/","m","e","r","m","a","i","d",".","m","i","n",".","j","s",
      "\"",">","<","/","s","c","r","i","p","t",">","\n"," "," "," "," ",
      "<","s","c","r","i","p","t",">","m","e","r","m","a","i","d",".","i",
      "n","i","t","i","a","l","i","z","e","(","{","s","t","a","r","t","O",
      "n","L","o","a","d",":","t","r","u","e","}",")",";","<","/","s","c",
      "r","i","p","t",">","\n","<","/","h","e","a","d",">","\n","<","b",
      "o","d","y",">","\n"," "," "," "," ","<","d","i","v"," ","c","l",
      "a","s","s","=","\"","m","e","r","m","a","i","d","\"",">","\n">>
MermaidHtmlTail ==
    <<"\n"," "," "," "," ","<","/","d","i","v",">","\n","<","/","b","o",
      "d","y",">","\n","<","/","h","t","m","l",">">>

DigitChars == <<"0","1","2","3","4","5","6","7","8","9">>

\* id(code): distinct for objects alive together.  The fixed_code of every
\* block stays referenced from processed_blocks, so the number of the block
\* stands for the id of its fixed_code.
ObjectId(i) == <<DigitChars[i + 1]>>

\* DiagramRenderer._create_mermaid_html for the fixed_code of block i; file
\* names are given without the temp_dir they are joined to
create_mermaid_html(fs, c, i) ==
    LET output_file == <<"m","e","r","m","a","i","d","_">> \o ObjectId(i)
                       \o <<".","h","t","m","l">>
    IN  [rendered_path |-> output_file,
         files |-> WriteFile(fs, output_file,
                             TextFile(MermaidHtmlHead \o c \o MermaidHtmlTail))]

\* DiagramRenderer._render_plantuml: the input file is written, then the
\* tool either writes the output file and exits with 0, or fails
render_plantuml(fs, c, result) ==
    LET input_file == <<"d","i","a","g","r","a","m",".","p","u","m","l">>
        output_file == <<"d","i","a","g","r","a","m",".","p","n","g">>
        written == WriteFile(fs, input_file, TextFile(c))
    IN  IF result = "path"
        THEN [rendered_path |-> output_file,
              files |-> WriteFile(written, output_file, ToolOutput("plantuml", c))]
        ELSE [rendered_path |-> None, files |-> written]

\* DiagramRenderer._render_dot
render_dot(fs, c, result) ==
    LET input_file == <<"d","i","a","g","r","a","m",".","d","o","t">>
        output_file == <<"d","i","a","g","r","a","m",".">> \o output_format
        written == WriteFile(fs, input_file, TextFile(c))
    IN  IF result = "path"
        THEN [rendered_path |-> output_file,
              files |-> WriteFile(written, output_file, ToolOutput("dot", c))]
        ELSE [rendered_path |-> None, files |-> written]

\* DiagramRenderer.render for the fixed_code c of block i, with
\* output_format 'html': _render_mermaid goes to _create_mermaid_html
\* (source lines 309-310), and an exception there gives None
render(fs, c, lang, i, result) ==
    IF lang = MERMAID
    THEN IF result = "path" THEN create_mermaid_html(fs, c, i)
         ELSE [rendered_path |-> None, files |-> fs]
    ELSE IF lang = PLANTUML THEN render_plantuml(fs, c, result)
    ELSE IF lang = DOT THEN render_dot(fs, c, result)
    ELSE [rendered_path |-> None, files |-> fs]


\* DiagramRenderer.render: what a call may return.  The three renderers
\* write files and run external tools, so each may yield a path or None;
\* any other language yields None (source lines 300-301).
RenderResults(lang) ==
    IF lang \in RenderedLanguages THEN {"path", "None"} ELSE {"None"}

\* the code argument of the call at source line 439
RenderArgumentUnrepaired(block, fixed) == block.code
RenderArgument(block, fixed) == fixed

\* source lines 429-433
StatsAfterValidate(st, i, found) ==
    [st EXCEPT !.validated_blocks = @ + 1,
               !.fixed_blocks = IF found # <<>> THEN @ + 1 ELSE @,
               !.issues = @ \o [k \in 1..Len(found) |->
                                  [block |-> i + 1, issue |-> found[k]]]]

\* the unknown-language branch leaving the counters alone
StatsAfterRenderUnknownUncounted(st, lang, rendered_path) ==
    IF lang # UNKNOWN /\ rendered_path # None
    THEN [st EXCEPT !.rendered_blocks = @ + 1]
    ELSE IF lang # UNKNOWN THEN [st EXCEPT !.failed_blocks = @ + 1]
    ELSE st

\* source lines 438-449
StatsAfterRender(st, lang, rendered_path) ==
    IF lang # UNKNOWN /\ rendered_path # None
    THEN [st EXCEPT !.rendered_blocks = @ + 1]
    ELSE [st EXCEPT !.failed_blocks = @ + 1]

Init ==
    /\ pc = "start"
    /\ text \in ProcessInputs
    /\ pool = <<>>
    /\ blocks = <<>>
    /\ code = <<>>
    /\ language = <<>>
    /\ inferred = <<>>
    /\ fixed_code = <<>>
    /\ issues = <<>>
    /\ idx = 0
    /\ stats = NoStats
    /\ processed_blocks = <<>>
    /\ calls = <<>>
    /\ files = NoFiles
    /\ document = NoDocument

\* the position after the body of the loop has run for block i
AfterBlock(i) == IF i + 1 < Len(blocks) THEN "validate" ELSE "generate"

\* source lines 409-423: detection and the initial stats
ProcessDetect ==
    /\ pc = "start"
    /\ pool' = Candidates(text)
    /\ blocks' = detect_blocks(text)
    /\ stats' = [NoStats EXCEPT !.total_blocks = Len(blocks')]
    /\ processed_blocks' = <<>>
    /\ idx' = 0
    /\ pc' = IF Len(blocks') > 0 THEN "validate" ELSE "generate"
    /\ UNCHANGED <<text, code, language, inferred, fixed_code, issues, calls,
                   files, document>>

\* source lines 424-434: the repair of block idx
ProcessValidate ==
    /\ pc = "validate"
    /\ LET block == blocks[idx + 1]
           r == validate_and_fix(block.code, block.language)
       IN  /\ code' = block.code
           /\ language' = block.language
           /\ fixed_code' = r.fixed_code
           /\ issues' = r.issues
           /\ stats' = StatsAfterValidate(stats, idx, r.issues)
           /\ calls' = Append(calls, [op |-> "validate_and_fix", idx |-> idx,
                                      code |-> block.code, language |-> block.language])
    /\ pc' = "render"
    /\ UNCHANGED <<text, pool, blocks, inferred, idx, processed_blocks,
                   files, document>>

\* source lines 437-446 and 451-456: the render of block idx and its record
ProcessRender ==
    /\ pc = "render"
    /\ language # UNKNOWN
    /\ \E result \in RenderResults(language) :
         LET r == render(files, RenderArgument(blocks[idx + 1], fixed_code),
                         language, idx, result)
         IN  /\ files' = r.files
             /\ stats' = StatsAfterRender(stats, language, r.rendered_path)
             /\ processed_blocks' =
                    Append(processed_blocks,
                           [original |-> blocks[idx + 1], fixed_code |-> fixed_code,
                            issues |-> issues, rendered_path |-> r.rendered_path])
    /\ calls' = Append(calls, [op |-> "render", idx |-> idx,
                               code |-> RenderArgument(blocks[idx + 1], fixed_code),
                               language |-> language])
    /\ idx' = idx + 1
    /\ pc' = AfterBlock(idx)
    /\ UNCHANGED <<text, pool, blocks, code, language, inferred, fixed_code, issues,
                   document>>

\* source lines 437-438 and 447-456: a block of unknown language is not rendered
ProcessSkipUnknown ==
    /\ pc = "render"
    /\ language = UNKNOWN
    /\ stats' = StatsAfterRender(stats, language, None)
    /\ processed_blocks' =
           Append(processed_blocks,
                  [original |-> blocks[idx + 1], fixed_code |-> fixed_code,
                   issues |-> issues, rendered_path |-> None])
    /\ idx' = idx + 1
    /\ pc' = AfterBlock(idx)
    /\ UNCHANGED <<text, pool, blocks, code, language, inferred, fixed_code, issues,
                   calls,
                   files, document>>

\* sorted(blocks, key=lambda x: x['original']['start_pos']), which is stable
RECURSIVE InsertByStart(_, _)
InsertByStart(sorted, x) ==
    IF Len(sorted) = 0 THEN <<x>>
    ELSE IF x.original.start_pos < Head(sorted).original.start_pos
    THEN <<x>> \o sorted
    ELSE <<Head(sorted)>> \o InsertByStart(Tail(sorted), x)

RECURSIVE SortByStart(_)
SortByStart(bs) ==
    IF Len(bs) = 0 THEN <<>>
    ELSE InsertByStart(SortByStart(SubSeq(bs, 1, Len(bs) - 1)), bs[Len(bs)])

\* LLMOutputProcessor._escape_html: the three replacements touch disjoint
\* characters, '&' first
EscapeChar(c) ==
    IF c = "&" THEN <<"&","a","m","p",";">>
    ELSE IF c = "<" THEN <<"&","l","t",";">>
    ELSE IF c = ">" THEN <<"&","g","t",";">>
    ELSE <<c>>
escape_html(t) == Concat([i \in 1..Len(t) |-> EscapeChar(t[i])])

MermaidDivOpen ==
    <<"<","d","i","v"," ","c","l","a","s","s","=","\"","m","e","r","m","a","i",
      "d","\"",">">>
DivClose == <<"<","/","d","i","v",">">>

\* re.search(r'<div class="mermaid">(.*?)</div>', content, re.DOTALL) on the
\* content read from a file; what an external tool wrote holds no such div
ExtractMermaidDiv(content) ==
    IF content.kind # "text" THEN [ok |-> FALSE]
    ELSE LET a == Find(content.data, MermaidDivOpen, 1)
             b == IF a = 0 THEN 0
                  ELSE Find(content.data, DivClose, a + Len(MermaidDivOpen))
         IN  IF a = 0 \/ b = 0 THEN [ok |-> FALSE]
             ELSE [ok |-> TRUE,
                   group1 |-> Slice(content.data, a + Len(MermaidDivOpen), b - 1)]

\* base64.b64encode(f.read()).decode(): one-to-one on file contents
Base64(content) == [base64 |-> content]

\* source lines 510-528: what the diagram section of a block embeds; the
\* files are read when the document is assembled
Embedded(fs, block_data) ==
    IF block_data.rendered_path # None
    THEN IF EndsWith(block_data.rendered_path, <<".","h","t","m","l">>)
         THEN LET match == ExtractMermaidDiv(fs[block_data.rendered_path])
              IN  IF match.ok THEN [tag |-> "mermaid", body |-> match.group1]
                  ELSE [tag |-> "nothing", body |-> <<>>]
         ELSE [tag |-> "img", body |-> Base64(fs[block_data.rendered_path])]
    ELSE [tag |-> "pre", body |-> escape_html(block_data.fixed_code)]

\* LLMOutputProcessor._generate_html_output: the diagram sections of the
\* document, in the order of the sorted blocks
generate_html_output(fs, bs) ==
    LET sorted_blocks == SortByStart(bs)
    IN  [kind |-> "html",
         sections |-> [k \in 1..Len(sorted_blocks) |->
                         [issues |-> sorted_blocks[k].issues,
                          embedded |-> Embedded(fs, sorted_blocks[k])]]]

\* LLMOutputProcessor._generate_markdown_output: the fenced blocks of the
\* document, each after a comment that counts its issues
generate_markdown_output(bs) ==
    LET sorted_blocks == SortByStart(bs)
        fence == <<Backtick, Backtick, Backtick>>
    IN  [kind |-> "md",
         sections |-> [k \in 1..Len(sorted_blocks) |->
                         [issues |-> Len(sorted_blocks[k].issues),
                          embedded |->
                            [tag |-> "fence",
                             body |-> fence \o sorted_blocks[k].original.language
                                      \o <<"\n">> \o sorted_blocks[k].fixed_code
                                      \o <<"\n">> \o fence \o <<"\n">>]]]]

\* LLMOutputProcessor._generate_output
generate_output(fs, bs, output_path) ==
    IF EndsWith(output_path, <<".","h","t","m","l">>)
    THEN generate_html_output(fs, bs)
    ELSE IF EndsWith(output_path, <<".","m","d">>)
    THEN generate_markdown_output(bs)
    ELSE generate_html_output(fs, bs)

\* source lines 458-463: the document is written and stats returned
ProcessGenerate ==
    /\ pc = "generate"
    /\ \E output_path \in OutputPaths :
         document' = generate_output(files, processed_blocks, output_path)
    /\ pc' = "done"
    /\ UNCHANGED <<text, pool, blocks, code, language, inferred, fixed_code, issues,
                   idx, stats, processed_blocks, calls, files>>

Next ==
    \/ ProcessDetect
    \/ ProcessValidate
    \/ ProcessRender
    \/ ProcessSkipUnknown
    \/ ProcessGenerate

Spec == Init /\ [][Next]_vars

-----------------------------------------------------------------------------
(* Claims about process                                                    *)

\* the number of calls of op among the first n calls
CallsBefore(op, n) == Cardinality({j \in 1..n : calls[j].op = op})

\* C8: for every detected block, in detector order, validate_and_fix is
\* called before the renderer for that block, and the code handed to the
\* renderer is that block's fixed_code.
C8_RepairBeforeRenderOfFixedCode ==
    \A j \in 1..Len(calls) :
        /\ calls[j].op = "validate_and_fix" =>
              /\ calls[j].idx = CallsBefore("validate_and_fix", j - 1)
              /\ calls[j].code = blocks[calls[j].idx + 1].code
              /\ calls[j].language = blocks[calls[j].idx + 1].language
        /\ calls[j].op = "render" =>
              /\ j > 1
              /\ calls[j - 1].op = "validate_and_fix"
              /\ calls[j - 1].idx = calls[j].idx
              /\ calls[j].language = blocks[calls[j].idx + 1].language
              /\ calls[j].code =
                     validate_and_fix(blocks[calls[j].idx + 1].code,
                                      blocks[calls[j].idx + 1].language).fixed_code

\* the renderer was called for a second block whose repair changed its code
C8_Witness ==
    \E j \in 1..Len(calls) :
        /\ calls[j].op = "render"
        /\ calls[j].idx >= 1
        /\ calls[j].code # blocks[calls[j].idx + 1].code

\* the blocks already recorded whose rendered_path is None
FailedRecords == {k \in 1..Len(processed_blocks) : processed_blocks[k].rendered_path = None}

\* C9: each detected block is accounted for exactly once: at the end
\* validated_blocks = total_blocks, rendered_blocks + failed_blocks =
\* total_blocks and fixed_blocks <= total_blocks; a None render result or
\* an unknown language counts as failed, the render is not retried, and the
\* remaining blocks are still processed.
C9_EveryBlockCountedOnce ==
    /\ pc \in {"validate", "render", "generate", "done"} =>
          /\ stats.total_blocks = Len(blocks)
          /\ Len(processed_blocks) = idx
          /\ stats.rendered_blocks + stats.failed_blocks = idx
          /\ stats.failed_blocks = Cardinality(FailedRecords)
          /\ stats.validated_blocks = (IF pc = "render" THEN idx + 1 ELSE idx)
          /\ stats.fixed_blocks <= stats.validated_blocks
          /\ \A k \in 1..Len(processed_blocks) :
                /\ processed_blocks[k].original = blocks[k]
                /\ processed_blocks[k].original.language = UNKNOWN
                      => processed_blocks[k].rendered_path = None
                /\ Cardinality({j \in 1..Len(calls) :
                                   calls[j].op = "render" /\ calls[j].idx = k - 1})
                      = (IF blocks[k].language = UNKNOWN THEN 0 ELSE 1)
    /\ pc \in {"generate", "done"} =>
          /\ idx = Len(blocks)
          /\ stats.validated_blocks = stats.total_blocks
          /\ stats.rendered_blocks + stats.failed_blocks = stats.total_blocks
          /\ stats.fixed_blocks <= stats.total_blocks

\* a run of three blocks ended: the first failed to render, the second was
\* of unknown language, the third rendered
C9_Witness ==
    /\ pc = "done"
    /\ Len(processed_blocks) = 3
    /\ processed_blocks[1].original.language # UNKNOWN
    /\ processed_blocks[1].rendered_path = None
    /\ processed_blocks[2].original.language = UNKNOWN
    /\ processed_blocks[3].rendered_path # None

\* what the mermaid div holds for the code c: the template puts the code
\* on lines of its own
MermaidDivOf(c) == <<"\n">> \o c \o <<"\n"," "," "," "," ">>

\* C18: the artifact the document embeds for a block is the one rendered
\* from that block's own fixed_code; the render of a later block does not
\* change what is embedded for an earlier one.
C18_EmbeddedArtifactIsOwn ==
    (pc = "done" /\ document.kind = "html") =>
        LET sorted_blocks == SortByStart(processed_blocks)
        IN  \A k \in 1..Len(sorted_blocks) :
              LET e == document.sections[k].embedded
                  own == sorted_blocks[k].fixed_code
              IN  /\ e.tag = "img" =>
                        \E tool \in {"plantuml", "dot"} :
                            e.body = Base64(ToolOutput(tool, own))
                  /\ e.tag = "mermaid" => e.body = MermaidDivOf(own)

====
